---- MODULE Spec2Model ----
(***************************************************************************)
(* Property-managing service (src/src/main.py): six request handlers that  *)
(* reach the Supabase store (and, for get-by-id, the user-managing         *)
(* service) through helper functions decorated                             *)
(*                                                                         *)
(*     @retry_strategy      tenacity: outer, drives the attempts           *)
(*     @breaker             pybreaker: inner, entered once per attempt     *)
(*                                                                         *)
(* The handlers are `async def` and call the helpers synchronously, so the *)
(* event loop runs one handler from its first line to its response,        *)
(* backoff sleeps included; other requests wait in the loop's queue.       *)
(***************************************************************************)
EXTENDS Integers, Sequences, FiniteSets, TLC

\* ---- bounds of the model -------------------------------------------------
NumReqs == 2            \* request slots (connections served by the loop)
MaxCounter == 7         \* cap on the breaker's failure counter
TickStep == 2           \* seconds one Tick lets pass while the breaker is open
NumValues == 2          \* distinct values a property field takes

\* ---- configuration of the decorators ------------------------------------
fail_max == 5           \* pybreaker.CircuitBreaker(fail_max=5, ...)
reset_timeout == 30     \* pybreaker.CircuitBreaker(..., reset_timeout=30)
max_attempt_number == 3 \* stop_after_attempt(3)
multiplier == 1         \* wait_exponential(multiplier=1, ...)
wait_min == 2           \* wait_exponential(..., min=2, ...)
wait_max == 6           \* wait_exponential(..., max=6)
exp_base == 2           \* wait_exponential's default exp_base

Reqs == 1..NumReqs

Ops == {"create", "get", "list", "get_by_user", "update", "delete"}

Min(a, b) == IF a < b THEN a ELSE b
Max(a, b) == IF a > b THEN a ELSE b

\* What one execution of a helper's body can end in.
\*   "rows"  the store answered with at least one row (for get: and the
\*           user service answered)
\*   "empty" the store answered with an empty result set
\*   the others are the exception raised
Returns == {"rows", "empty"}
Raises == {"RequestException", "Exception", "HTTPException", "IndexError"}

\* What the store client can do on one invocation.
StoreOutcomes == {"rows", "empty", "RequestException", "Exception"}
\* What requests.get(...).json() can do on one invocation.
UserOutcomes == {"ok", "RequestException", "Exception"}

VARIABLES
    state,          \* breaker.current_state: "closed", "open", "half-open"
    counter,        \* breaker.fail_counter
    since_opened,   \* utcnow() - opened_at in seconds, saturating at reset_timeout
    req,            \* per request slot: the handler's progress and what it did
    transient_seen, \* history: some helper body has raised RequestException
    other_failure_seen,
                    \* history: some helper body has raised before or at its
                    \* store invocation (anything but a user-service failure)
    transient_run   \* history: how many requests in a row ended in a transient
                    \* failure (RetryError, or RequestException that opened the
                    \* breaker) since the last return; -1 once another kind of
                    \* failure was counted since then

history == <<transient_seen, other_failure_seen, transient_run>>

service == <<state, counter, since_opened, req, history>>

\* ---- models.py: the stored row and the PropertyUpdate payload -------------

\* Some of the Optional fields of PropertyUpdate.
Fields == {"name", "price", "size"}
None == 0
Values == 1..NumValues

VARIABLE
    upd             \* one update followed by a read of the same row:
                    \*   stored      the row in the store
                    \*   before      the row before the update
                    \*   values      the PropertyUpdate's field values
                    \*   fields_set  the fields the request body contained
                    \*   sent        the dict passed to .update()
                    \*   read        the row as read back

vars == <<state, counter, since_opened, req, history, upd>>

NoRow == [f \in Fields |-> None]

UpdIdle ==
    [pc |-> "idle", stored |-> NoRow, before |-> NoRow, values |-> NoRow,
     fields_set |-> {}, sent |-> [f \in {} |-> None], read |-> NoRow]

InitReq ==
    [pc |-> "idle", op |-> "none", empty |-> FALSE, arrived_in_trial |-> FALSE,
     published |-> "none", outcomes |-> <<>>, store_calls |-> 0, user_calls |-> 0,
     state0 |-> "none", counter0 |-> 0, waits |-> <<>>,
     result |-> "none", status |-> 0, detail |-> "none"]

InitService ==
    /\ state = "closed"
    /\ counter = 0
    /\ since_opened = 0
    /\ req = [r \in Reqs |-> InitReq]
    /\ transient_seen = FALSE
    /\ other_failure_seen = FALSE
    /\ transient_run = 0

Init ==
    /\ InitService
    /\ upd = UpdIdle

\* ---- tenacity: retry_strategy -------------------------------------------

\* retry_if_exception_type(requests.exceptions.RequestException), which is
\* also what is_transient_error tests.
is_any_error(exception) == exception \in Raises
is_transient_error(exception) == exception = "RequestException"

\* stop_after_attempt(3): stop once attempt_number >= 3.
stop_after_next_attempt(attempt_number) == attempt_number > max_attempt_number
stop_after_attempt(attempt_number) == attempt_number >= max_attempt_number

\* wait_exponential(multiplier=1, min=2, max=6).__call__:
\*   exp = exp_base ** (attempt_number - 1); result = multiplier * exp
\*   return max(max(0, min), min(result, max))
wait_exponential_from_exp_base(attempt_number) ==
    Max(Max(0, wait_min), Min(multiplier * exp_base ^ attempt_number, wait_max))
wait_exponential(attempt_number) ==
    Max(Max(0, wait_min), Min(multiplier * exp_base ^ (attempt_number - 1), wait_max))

\* ---- pybreaker: breaker -------------------------------------------------

\* CircuitOpenState.before_call: utcnow() < opened_at + reset_timeout.
timeout_not_elapsed_short == since_opened < reset_timeout - wait_max
timeout_not_elapsed == since_opened < reset_timeout

\* CircuitClosedState.on_failure: fail_counter >= fail_max.
threshold_exceeded(fail_counter) == fail_counter > fail_max
threshold_one_early(fail_counter) == fail_counter >= fail_max - 1
threshold_reached(fail_counter) == fail_counter >= fail_max

\* ---- handlers: the try/except around the helper call ---------------------

\* status and detail/body of the response for what the helper call ended in.
\* For get-by-id the HTTPException(404) of the else branch is raised inside
\* the try and is caught by `except Exception`, which answers 400.
handler_response(op, result) ==
    CASE result = "RetryError" -> [status |-> 503, detail |-> "retry attempts"]
      [] result = "CircuitBreakerError" -> [status |-> 503, detail |-> "repeated failures"]
      [] result \in Raises -> [status |-> 400, detail |-> result]
      [] result = "rows" ->
            [status |-> 200,
             detail |-> IF op = "get" THEN "record"
                        ELSE IF op = "delete" THEN "deleted" ELSE "data"]
      [] result = "empty" ->
            IF op = "get" THEN [status |-> 400, detail |-> "404: id not found"]
            ELSE [status |-> 200, detail |-> IF op = "delete" THEN "deleted" ELSE "data"]
      [] OTHER -> [status |-> 400, detail |-> result]

\* The loop is free for a new handler: no handler is between its first line
\* and its response.
loop_always_free == TRUE
loop_free == \A q \in Reqs : req[q].pc \in {"idle", "queued"}

\* ---- actions ------------------------------------------------------------

\* A request reaches the server and waits for the event loop.
Arrive(r) ==
    /\ req[r].pc = "idle"
    /\ req' = [req EXCEPT ![r] = [InitReq EXCEPT !.pc = "queued",
                                      !.arrived_in_trial = (state = "half-open")]]
    /\ UNCHANGED <<state, counter, since_opened, history, upd>>

\* The event loop calls the handler of the request: o is the route, e tells
\* whether a PropertyUpdate body has no field set.
Dispatch(r, o, e) ==
    /\ req[r].pc = "queued"
    /\ loop_free
    /\ e => o = "update"
    /\ req' = [req EXCEPT ![r] = [@ EXCEPT !.op = o, !.empty = e,
                                      !.pc = IF o = "get" THEN "publish" ELSE "call"]]
    /\ UNCHANGED <<state, counter, since_opened, history, upd>>

\* get_property: KafkaProducer(...), send, flush, inside the handler's try.
\* A failure of any of the three is an exception caught by `except Exception`.
Publish(r, ok) ==
    /\ req[r].pc = "publish"
    /\ req' = [req EXCEPT ![r] =
                 IF ok THEN [@ EXCEPT !.published = "sent", !.pc = "call"]
                 ELSE [@ EXCEPT !.published = "failed", !.pc = "done",
                                !.status = 400, !.detail = "KafkaError"]]
    /\ UNCHANGED <<state, counter, since_opened, history, upd>>

\* One attempt of the retry loop enters the breaker (CircuitBreaker.call).
\* Open and timeout not elapsed: CircuitBreakerError, which is no
\* RequestException, so tenacity re-raises it and the handler answers 503.
\* Open and timeout elapsed: half_open() and the call goes on as the trial.
BreakerCall(r) ==
    /\ req[r].pc = "call"
    /\ LET first == req[r].outcomes = <<>>
           s0 == IF first THEN state ELSE req[r].state0
           c0 == IF first THEN counter ELSE req[r].counter0
       IN IF state = "open" /\ timeout_not_elapsed
          THEN /\ req' = [req EXCEPT ![r] =
                            [@ EXCEPT !.state0 = s0, !.counter0 = c0,
                                      !.outcomes = Append(@, "rejected"),
                                      !.result = "CircuitBreakerError",
                                      !.status = handler_response(req[r].op, "CircuitBreakerError").status,
                                      !.detail = handler_response(req[r].op, "CircuitBreakerError").detail,
                                      !.pc = "done"]]
               /\ UNCHANGED state
          ELSE /\ req' = [req EXCEPT ![r] =
                            [@ EXCEPT !.state0 = s0, !.counter0 = c0, !.pc = "store"]]
               /\ state' = IF state = "open" THEN "half-open" ELSE state
    /\ UNCHANGED <<counter, since_opened, history, upd>>

\* What the breaker and then the retry loop and the handler do with the end
\* of one execution of the helper's body (raw), for the request as it is
\* after the body's invocations (rq).
\*   CircuitBreakerState.call: an exception is a failure (no exception is
\*   excluded): the counter is incremented and on_failure runs; closed opens
\*   at threshold_reached and half-open opens at once, both raising
\*   CircuitBreakerError in place of the exception. A return resets the
\*   counter, and closes a half-open breaker.
\*   tenacity: a RequestException is retried after a wait unless
\*   stop_after_attempt, which raises RetryError; anything else is re-raised.
AfterCall(r, rq, raw) ==
    LET succ == raw \in Returns
        c1 == IF succ THEN 0 ELSE counter + 1
        trips == /\ ~succ
                 /\ \/ state = "half-open"
                    \/ state = "closed" /\ threshold_reached(c1)
        raised == IF trips THEN "CircuitBreakerError" ELSE raw
        n == Len(rq.outcomes) + 1
        final == IF ~is_transient_error(raised) THEN raised
                 ELSE IF stop_after_attempt(n) THEN "RetryError" ELSE "sleep"
        resp == handler_response(rq.op, final)
        rq1 == [rq EXCEPT !.outcomes = Append(@, raw)]
    IN /\ ~succ => counter < MaxCounter
       /\ counter' = c1
       /\ state' = IF succ THEN (IF state = "half-open" THEN "closed" ELSE state)
                   ELSE IF trips THEN "open" ELSE state
       /\ since_opened' = IF trips THEN 0 ELSE since_opened
       /\ transient_seen' = (transient_seen \/ raw = "RequestException")
       /\ other_failure_seen' = (other_failure_seen \/ (~succ /\ rq.pc = "store"))
       /\ UNCHANGED upd
       /\ transient_run' =
             IF succ THEN 0
             ELSE IF raw # "RequestException" THEN -1
             ELSE IF final = "sleep" \/ transient_run = -1 THEN transient_run
             ELSE Min(transient_run + 1, fail_max)
       /\ req' = [req EXCEPT ![r] =
                    IF final = "sleep"
                    THEN [rq1 EXCEPT !.pc = "sleep",
                                     !.waits = Append(@, wait_exponential(n))]
                    ELSE [rq1 EXCEPT !.pc = "done", !.result = final,
                                     !.status = resp.status, !.detail = resp.detail]]

\* update_property_in_supabase with a payload without fields:
\* property.dict(exclude_unset=True) is empty and HTTPException(400) is raised
\* inside the breaker, before the store is invoked.
EmptyUpdate(r) ==
    /\ req[r].pc = "store"
    /\ req[r].op = "update" /\ req[r].empty
    /\ AfterCall(r, req[r], "HTTPException")

\* The helper's body invokes the store (insert/select/update/delete .execute()).
\* get_property_from_supabase reads response.data[0] next: IndexError on an
\* empty result, and otherwise it goes on to the user service.
StoreCall(r, out) ==
    /\ req[r].pc = "store"
    /\ ~(req[r].op = "update" /\ req[r].empty)
    /\ LET rq == [req[r] EXCEPT !.store_calls = @ + 1]
       IN IF req[r].op = "get" /\ out = "rows"
          THEN /\ req' = [req EXCEPT ![r] = [rq EXCEPT !.pc = "user"]]
               /\ UNCHANGED <<state, counter, since_opened, history, upd>>
          ELSE AfterCall(r, rq, IF req[r].op = "get" /\ out = "empty"
                                THEN "IndexError" ELSE out)

\* get_property_from_supabase: requests.get(USER_MANAGING_API_URL/users/..).json()
UserCall(r, out) ==
    /\ req[r].pc = "user"
    /\ AfterCall(r, [req[r] EXCEPT !.user_calls = @ + 1],
                 IF out = "ok" THEN "rows" ELSE out)

\* The retry loop's time.sleep(wait) returns and the next attempt begins.
Wake(r) ==
    /\ req[r].pc = "sleep"
    /\ req' = [req EXCEPT ![r] = [@ EXCEPT !.pc = "call"]]
    /\ since_opened' = IF state = "open"
                       THEN Min(reset_timeout, since_opened + req[r].waits[Len(req[r].waits)])
                       ELSE since_opened
    /\ UNCHANGED <<state, counter, history, upd>>

\* The response has been sent; the slot is free for another request.
Complete(r) ==
    /\ req[r].pc = "done"
    /\ req' = [req EXCEPT ![r] = InitReq]
    /\ UNCHANGED <<state, counter, since_opened, history, upd>>

\* Time passes while the breaker is open (the only state that reads the clock).
Tick ==
    /\ state = "open"
    /\ timeout_not_elapsed
    /\ since_opened' = Min(reset_timeout, since_opened + TickStep)
    /\ UNCHANGED <<state, counter, req, history, upd>>

Next ==
    \/ \E r \in Reqs : Arrive(r)
    \/ \E r \in Reqs, o \in Ops, e \in BOOLEAN : Dispatch(r, o, e)
    \/ \E r \in Reqs, ok \in BOOLEAN : Publish(r, ok)
    \/ \E r \in Reqs : BreakerCall(r)
    \/ \E r \in Reqs : EmptyUpdate(r)
    \/ \E r \in Reqs, out \in StoreOutcomes : StoreCall(r, out)
    \/ \E r \in Reqs, out \in UserOutcomes : UserCall(r, out)
    \/ \E r \in Reqs : Wake(r)
    \/ \E r \in Reqs : Complete(r)
    \/ Tick

Spec == Init /\ [][Next]_vars

\* ---- a partial update, then a read of the row ------------------------------

\* PropertyUpdate.dict(exclude_unset=True): the fields the body contained,
\* with their values. dict() without the flag has every field, None where unset.
dict_all(values, fields_set) == [f \in Fields |-> values[f]]
dict_exclude_unset(values, fields_set) == [f \in fields_set |-> values[f]]

\* supabase.table("properties").update(update_data).eq("id", id).execute():
\* the columns named in update_data are set, the others are left as they are.
store_update(row, update_data) ==
    [f \in Fields |-> IF f \in DOMAIN update_data THEN update_data[f] ELSE row[f]]

\* A row is in the store and a PUT arrives for it; pydantic gives None to
\* every field the body does not contain.
UpdateInit ==
    /\ InitService
    /\ \E row \in [Fields -> Values], fs \in SUBSET Fields,
          vs \in [Fields -> Values \cup {None}] :
          /\ \A f \in Fields \ fs : vs[f] = None
          /\ upd = [UpdIdle EXCEPT !.pc = "put", !.stored = row, !.before = row,
                                   !.values = vs, !.fields_set = fs]

\* update_property_in_supabase, `if not update_data`: HTTPException(400).
UpdateRejected ==
    /\ upd.pc = "put"
    /\ DOMAIN dict_exclude_unset(upd.values, upd.fields_set) = {}
    /\ upd' = [upd EXCEPT !.pc = "rejected"]
    /\ UNCHANGED service

\* update_property_in_supabase, the store call succeeding.
UpdateStore ==
    /\ upd.pc = "put"
    /\ LET update_data == dict_exclude_unset(upd.values, upd.fields_set)
       IN /\ DOMAIN update_data # {}
          /\ upd' = [upd EXCEPT !.pc = "updated", !.sent = update_data,
                                !.stored = store_update(upd.stored, update_data)]
    /\ UNCHANGED service

\* The row is read back (select * where id = ...).
ReadBack ==
    /\ upd.pc = "updated"
    /\ upd' = [upd EXCEPT !.pc = "read", !.read = upd.stored]
    /\ UNCHANGED service

UpdateNext ==
    \/ UpdateRejected
    \/ UpdateStore
    \/ ReadBack

UpdateSpec == UpdateInit /\ [][UpdateNext]_vars

TypeOK ==
    /\ state \in {"closed", "open", "half-open"}
    /\ counter \in 0..MaxCounter
    /\ since_opened \in 0..reset_timeout
    /\ transient_seen \in BOOLEAN
    /\ other_failure_seen \in BOOLEAN
    /\ transient_run \in -1..fail_max
    /\ \A r \in Reqs :
        /\ req[r].pc \in {"idle", "queued", "publish", "call", "store", "user", "sleep", "done"}
        /\ req[r].status \in {0, 200, 400, 503}

\* ---- claims ---------------------------------------------------------------

\* Requests whose helper body is executing an invocation of the store or of
\* the user service.
InFlight == {r \in Reqs : req[r].pc \in {"store", "user"}}

OpenWithinTimeout == state = "open" /\ since_opened < reset_timeout

\* C1: once fail_max consecutive failures are recorded the breaker is open, and
\* until reset_timeout has elapsed no invocation of the store or of the user
\* service is in flight, every attempt that enters the breaker ends its request
\* with the circuit-open error (503) without an invocation, and the request
\* whose attempt opened the breaker makes no further attempt.
C1_OpenRejectsEveryCall ==
    /\ [](counter >= fail_max /\ since_opened < reset_timeout => state = "open")
    /\ [](OpenWithinTimeout => InFlight = {})
    /\ [][\A r \in Reqs :
            /\ (OpenWithinTimeout /\ req[r].pc = "call" /\ req'[r] # req[r]) =>
                  /\ req'[r].pc = "done"
                  /\ req'[r].result = "CircuitBreakerError"
                  /\ req'[r].status = 503
                  /\ req'[r].store_calls = req[r].store_calls
                  /\ req'[r].user_calls = req[r].user_calls
            /\ (state # "open" /\ state' = "open" /\ r \in InFlight) =>
                  /\ req'[r].pc = "done"
                  /\ req'[r].result = "CircuitBreakerError"]_vars

\* C1 witness: a request was rejected on entry by the open breaker, without
\* any invocation, after fail_max failures.
C1_Witness ==
    \E r \in Reqs :
        /\ req[r].pc = "done" /\ req[r].outcomes = <<"rejected">>
        /\ req[r].store_calls = 0 /\ req[r].user_calls = 0
        /\ state = "open" /\ counter >= fail_max /\ since_opened > 0

\* C2: a whole retry sequence counts as one breaker call: when a request's
\* sequence has ended, the failure counter is at most one above what it was
\* when the sequence began, exactly one above after an exhausted sequence, and
\* 0 after a sequence that ended in a return.
C2_SequenceCountsOnce ==
    \A r \in Reqs :
        (req[r].pc = "done" /\ req[r].result # "none") =>
            /\ counter <= req[r].counter0 + 1
            /\ req[r].result = "RetryError" => counter = req[r].counter0 + 1
            /\ req[r].result \in Returns => counter = 0

StartedClosedAtZero(r) ==
    /\ req[r].pc = "done" /\ req[r].result # "none"
    /\ req[r].state0 = "closed" /\ req[r].counter0 = 0

\* C4: from a closed breaker with counter 0, a first failure that is no
\* RequestException ends the sequence after one execution with that failure
\* unchanged; RequestException on every attempt gives exactly 3 invocations
\* and RetryError; a return ends the sequence at that attempt; and only a
\* RequestException is ever followed by another attempt.
C4_RetryPolicy ==
    \A r \in Reqs :
        /\ \A i \in 1..(Len(req[r].outcomes) - 1) : req[r].outcomes[i] = "RequestException"
        /\ req[r].pc = "sleep" =>
              req[r].outcomes[Len(req[r].outcomes)] = "RequestException"
        /\ StartedClosedAtZero(r) =>
              LET o == req[r].outcomes
                  n == Len(o)
              IN /\ n \in 1..3
                 /\ o[1] \in Raises \ {"RequestException"} =>
                       /\ n = 1 /\ req[r].result = o[1]
                       /\ req[r].store_calls = IF o[1] = "HTTPException" THEN 0 ELSE 1
                       /\ req[r].user_calls <= 1
                 /\ (\A i \in 1..n : o[i] = "RequestException") =>
                       /\ n = 3 /\ req[r].result = "RetryError"
                       /\ req[r].store_calls = 3
                 /\ \A i \in 1..n : o[i] \in Returns =>
                       i = n /\ req[r].result = o[i]

\* C4 witness: three transient failures from a closed breaker at 0.
C4_Witness ==
    \E r \in Reqs :
        /\ StartedClosedAtZero(r)
        /\ req[r].outcomes = <<"RequestException", "RequestException", "RequestException">>
        /\ req[r].result = "RetryError" /\ req[r].store_calls = 3

\* C5 as stated: the wait after failed attempt n is min(6, 2 * 2^(n-1)).
C5_WaitDoubles ==
    \A r \in Reqs : \A n \in 1..Len(req[r].waits) :
        req[r].waits[n] = Min(6, 2 * 2 ^ (n - 1))

\* C5 amended: the wait after failed attempt n is max(2, min(6, 2^(n-1))):
\* 2s after the first and 2s after the second failed attempt, which are the
\* only waits a sequence of 3 attempts makes (the policy would give 4s after
\* a third and 6s after any later one).
C5_WaitClamped ==
    /\ \A r \in Reqs :
          /\ Len(req[r].waits) <= 2
          /\ \A n \in 1..Len(req[r].waits) : req[r].waits[n] = 2
          /\ req[r].pc = "sleep" => Len(req[r].waits) = Len(req[r].outcomes)
    /\ wait_exponential(3) = 4
    /\ wait_exponential(4) = 6
    /\ wait_exponential(5) = 6

\* C5 witness: a request is in its second backoff wait.
C5_Witness ==
    \E r \in Reqs : req[r].pc = "sleep" /\ Len(req[r].waits) = 2

\* C6: a failed publish of the view event is not surfaced: the fetch still
\* runs and the response is the one the fetch's result maps to.
C6_PublishFailureSwallowed ==
    \A r \in Reqs :
        (req[r].pc = "done" /\ req[r].op = "get" /\ req[r].published = "failed") =>
            /\ req[r].result # "none"
            /\ req[r].status = handler_response("get", req[r].result).status
            /\ req[r].detail = handler_response("get", req[r].result).detail

\* C7: an update whose payload has no field set is answered with a 4xx status
\* and never invokes the store, whatever the breaker's state.
C7_EmptyUpdateRejected400 ==
    \A r \in Reqs :
        (req[r].pc = "done" /\ req[r].op = "update" /\ req[r].empty) =>
            /\ req[r].status \in 400..499
            /\ req[r].store_calls = 0

\* C8: as long as no failure was transient, the breaker is closed and no
\* request is answered 503.
C8_PermanentNeverEscalates ==
    ~transient_seen =>
        /\ state = "closed"
        /\ \A r \in Reqs : req[r].pc = "done" => req[r].status # 503

\* C9: get-by-id whose store call returned an empty result set is answered
\* 404 with a detail that mentions the id, without a call of the user service
\* in that attempt.
C9_MissingIdIs404 ==
    \A r \in Reqs :
        (req[r].pc = "done" /\ req[r].op = "get" /\ req[r].outcomes = <<"IndexError">>) =>
            /\ req[r].status = 404
            /\ req[r].detail = "404: id not found"
            /\ req[r].user_calls = 0

\* C10: a rejection by the open breaker and an exhausted retry sequence are
\* answered 503, and a request whose helper body last ended in a return, a
\* validation error, a not-found or another non-transient exception is not.
C10_Only503ForOpenOrExhausted ==
    \A r \in Reqs :
        (req[r].pc = "done" /\ req[r].result # "none") =>
            LET last == req[r].outcomes[Len(req[r].outcomes)]
            IN /\ (last = "rejected" \/ req[r].result = "RetryError") => req[r].status = 503
               /\ last \in Returns \cup {"HTTPException", "IndexError", "Exception"} =>
                     req[r].status # 503

\* C11: after N < fail_max requests in a row that each ended in a transient
\* failure (nothing else counted since the last return) the breaker is still
\* closed, so the next call reaches the dependency.
C11_NeverOpensEarly ==
    transient_run \in 0..(fail_max - 1) => state = "closed"

\* The request whose helper body is executing, if any, ends that execution in
\* this step with a return / with an exception.
BodyReturns(r) ==
    /\ r \in InFlight /\ req'[r].pc \notin {"store", "user"}
    /\ req'[r].outcomes[Len(req'[r].outcomes)] \in Returns
BodyRaises(r) ==
    /\ r \in InFlight /\ req'[r].pc \notin {"store", "user"}
    /\ req'[r].outcomes[Len(req'[r].outcomes)] \in Raises

\* C12: the trial call decides the state after half-open: a trial that returns
\* closes the breaker with the counter at 0; a trial that raises re-opens it
\* with opened_at set to that moment; and the next trial starts only from open
\* with a whole reset_timeout elapsed since.
C12_TrialDecides ==
    [][/\ state = "half-open" =>
            \E r \in InFlight :
                /\ BodyReturns(r) => state' = "closed" /\ counter' = 0
                /\ BodyRaises(r) =>
                      /\ state' = "open" /\ since_opened' = 0
                      /\ req'[r].result = "CircuitBreakerError"
                /\ ~BodyReturns(r) /\ ~BodyRaises(r) => state' = "half-open"
       /\ (state # "half-open" /\ state' = "half-open") =>
            state = "open" /\ since_opened >= reset_timeout]_vars

\* C12 witness: a trial has failed and the breaker is open again with the
\* timeout starting over.
C12_Witness ==
    /\ state = "open" /\ since_opened = 0 /\ counter > fail_max
    /\ \E r \in Reqs : req[r].pc = "done" /\ req[r].state0 = "open"
                       /\ req[r].result = "CircuitBreakerError"
                       /\ Len(req[r].outcomes) = 1 /\ req[r].outcomes[1] \in Raises

\* C13: only consecutive failed breaker calls count: a call that returns while
\* the breaker is closed sets the counter to 0, the counter grows by one and
\* only when a call raises, and the breaker leaves closed only in a step
\* that brings the counter to fail_max; so a closed breaker has seen fewer
\* than fail_max failures since the last return.
C13_OnlyConsecutiveFailuresCount ==
    /\ [](state = "closed" => counter < fail_max)
    /\ [][/\ \A r \in Reqs : (state = "closed" /\ BodyReturns(r)) =>
                                (counter' = 0 /\ state' = "closed")
          /\ counter' # counter =>
                \E r \in Reqs : \/ BodyReturns(r) /\ counter' = 0
                                \/ BodyRaises(r) /\ counter' = counter + 1
          /\ (state = "closed" /\ state' # "closed") =>
                (counter' = fail_max /\ state' = "open")]_vars

\* C13 witness: failures were counted, a call returned, and the counter is 0
\* with the breaker closed.
C13_Witness ==
    /\ state = "closed" /\ counter = 0
    /\ \E r \in Reqs : /\ req[r].pc = "done" /\ req[r].counter0 > 0
                       /\ Len(req[r].outcomes) = 2
                       /\ req[r].outcomes[1] = "RequestException"
                       /\ req[r].outcomes[2] \in Returns

\* C14: while every counted failure came from the user service, no store-only
\* request (create, list, get-by-user, update, delete) is rejected by the
\* breaker or answered 503.
C14_UserServiceIndependent ==
    ~other_failure_seen =>
        \A r \in Reqs :
            (req[r].pc = "done" /\ req[r].op \in Ops \ {"get"}) =>
                /\ req[r].status # 503
                /\ req[r].result # "CircuitBreakerError"

\* C15: after a successful partial update the dict sent to the store has
\* exactly the fields the payload contained, and the row read back equals the
\* payload on those fields and the row as it was on every other field.
C15_PartialUpdateFrame ==
    upd.pc = "read" =>
        /\ DOMAIN upd.sent = upd.fields_set
        /\ \A f \in Fields :
              upd.read[f] = IF f \in upd.fields_set THEN upd.values[f] ELSE upd.before[f]

\* C15 witness: a payload with only price changed the price and nothing else.
C15_Witness ==
    /\ upd.pc = "read" /\ upd.fields_set = {"price"}
    /\ upd.read["price"] # upd.before["price"]
    /\ upd.read["price"] = upd.values["price"]
    /\ \A f \in Fields \ {"price"} : upd.read[f] = upd.before[f] /\ upd.read[f] # None

\* C16: a request in its backoff wait does not block the others: a request
\* that waits for the loop while another one sleeps between attempts can be
\* started.
C16_BackoffDoesNotBlock ==
    \A a \in Reqs, b \in Reqs :
        (req[a].pc = "sleep" /\ req[b].pc = "queued") =>
            ENABLED (\E o \in Ops : Dispatch(b, o, FALSE))

\* C17: list, get-by-user, update and delete answer 404 when the store call
\* returned an empty result set.
C17_EmptyResultIs404 ==
    \A r \in Reqs :
        (/\ req[r].pc = "done"
         /\ req[r].op \in {"list", "get_by_user", "update", "delete"}
         /\ req[r].result = "empty") =>
            req[r].status = 404

\* The store fetch of a get-by-id request has returned a row in some attempt
\* (the helper went on to the user service).
FetchSucceeded(r) == req[r].pc = "user" \/ req[r].user_calls > 0

\* C18: the view event of a get-by-id request is published only after the
\* request's store fetch has succeeded.
C18_PublishAfterFetch ==
    \A r \in Reqs : req[r].published = "sent" => FetchSucceeded(r)

\* C19: once the dependencies succeed on every invocation the breaker recovers
\* and stays closed: the breaker goes (back) to open only in a step in which
\* an invocation of the store or of the user service failed, so a trial made
\* while they succeed closes it and nothing re-opens it.
C19_OpensOnlyOnDependencyFailure ==
    [][(state # "open" /\ state' = "open") =>
          \E r \in InFlight :
              /\ BodyRaises(r)
              /\ req'[r].outcomes[Len(req'[r].outcomes)] \in {"RequestException", "Exception"}]_vars

\* C20: a request makes at most 3 attempts, hence at most 3 invocations of the
\* store and of the user service; it goes on to another attempt only after
\* RequestExceptions that left the breaker closed; and a request during whose
\* sequence the breaker opened has ended, answered 503.
C20_AttemptLoopBounded ==
    \A r \in Reqs :
        /\ Len(req[r].outcomes) <= 3
        /\ req[r].store_calls <= 3 /\ req[r].user_calls <= 3
        /\ req[r].store_calls <= Len(req[r].outcomes) + 1
        /\ req[r].pc \in {"call", "store", "user", "sleep"} =>
              /\ \A i \in 1..Len(req[r].outcomes) : req[r].outcomes[i] = "RequestException"
              /\ req[r].outcomes # <<>> => state = "closed"
        /\ (req[r].state0 = "closed" /\ state = "open") =>
              /\ req[r].pc = "done"
              /\ req[r].result = "CircuitBreakerError"
              /\ req[r].status = 503

\* C20 witness: the second attempt of a request opened the breaker; the
\* request ended there with 503.
C20_Witness ==
    \E r \in Reqs :
        /\ req[r].pc = "done" /\ req[r].state0 = "closed" /\ state = "open"
        /\ req[r].outcomes = <<"RequestException", "RequestException">>
        /\ req[r].store_calls = 2 /\ req[r].status = 503

====
